---- MODULE Spec2Model ----
(***************************************************************************)
(* Model of the auto-tuning agent of postgres-vector-agent:                *)
(*   agent/agent_core.py  AutoTuningAgent (observe, reason, act, cycle)     *)
(*   agent/optimizer.py   LLMOptimizer (oracle reply parsing, fallback)     *)
(*   agent/database.py    DatabaseManager (EXPLAIN, index check, logs)      *)
(*   agent/embeddings.py  EmbeddingGenerator.encode_query                   *)
(*   scripts/benchmark.py the driver that runs cycles one after another     *)
(*                                                                         *)
(* Python dicts are records / functions with string keys; a key a dict     *)
(* does not carry is absent from the DOMAIN, so that a subscript on a       *)
(* missing key is a KeyError in the model as it is in the code.            *)
(* Execution times are milliseconds drawn from small sets that straddle    *)
(* the thresholds of the code (20, 100, 200); float quotients are exact    *)
(* rationals <<numerator, denominator>>.                                   *)
(***************************************************************************)
EXTENDS Integers, Sequences, FiniteSets, TLC

VARIABLES
    indexes,            \* storage engine: names of the indexes in schema rag_system
    create_count,       \* storage engine: CREATE INDEX statements executed so far
    metric_log,         \* storage engine: number of rows of rag_system.query_metrics
    action_log,         \* storage engine: rows of rag_system.agent_actions (action types)
    optimization_count, \* AutoTuningAgent.optimization_count
    total_improvement,  \* AutoTuningAgent.total_improvement, a rational
    pc,                 \* phase of run_optimization_cycle
    cycles,             \* cycles started by the driver
    tenant_id,          \* argument of the running cycle
    query_embedding,    \* local of the running cycle
    analysis_before,    \* local of the running cycle
    decision,           \* local of the running cycle
    action_result,      \* local of the running cycle
    analysis_after,     \* local of the running cycle
    improvement,        \* local of the running cycle
    exception,          \* the exception that left run_optimization_cycle, if any
    oracle_calls,       \* ollama.chat calls made in the running cycle
    oracle_failed,      \* whether the last ollama.chat call of the cycle raised
    index_checks,       \* pg_indexes existence queries made in the running cycle
    inserts_fail,       \* whether the log tables reject INSERTs during the running cycle
    act_history,        \* direct act calls since the last external index change:
                        \* the action and tenant passed, the ActionResult returned
    storage_failures,   \* the storage operations of the running cycle's act that
                        \* raised: the pg_indexes query, the agent_actions INSERT
    workers,            \* overlapping cycles: each one's position and locals
    analyzer,           \* QueryAnalyzer at work: the EXPLAIN output it was given,
                        \* the scan_info and the issues it derived from it
    oracle_reply        \* decide_optimization at work: the llm_output it parsed

vars == <<indexes, create_count, metric_log, action_log, optimization_count,
          total_improvement, pc, cycles, tenant_id, query_embedding,
          analysis_before, decision, action_result, analysis_after, improvement,
          exception, oracle_calls, oracle_failed, index_checks, inserts_fail,
          act_history, storage_failures, workers, analyzer, oracle_reply>>

storage == <<indexes, create_count, metric_log, action_log>>
stats == <<optimization_count, total_improvement>>
locals == <<tenant_id, query_embedding, analysis_before, decision, action_result,
            analysis_after, improvement, exception, oracle_calls, oracle_failed,
            index_checks, inserts_fail, storage_failures>>

-----------------------------------------------------------------------------
(* Bounds of the model *)

MaxCycles == 1

(* Python's None: as the value of a string-valued dict entry, and as the
   value of a local that otherwise holds a dict or a number *)
None == "None"
Null == <<>>

Tenants == {"default", "wikipedia"}
QueryTexts == {"quantum computing and physics"}
IndexTypes == {"hnsw", "ivfflat"}
Actions == {"no_action", "create_hnsw_index", "create_ivfflat_index", "optimize_query"}
CreateActions == {"create_hnsw_index", "create_ivfflat_index"}
Confidences == {"low", "medium", "high"}

(* 'Execution Time' values an EXPLAIN reply of a cycle may report *)
ExecTimes == {0, 20, 180, 250}

-----------------------------------------------------------------------------
(* Exact rationals for the float arithmetic of the improvement *)

RECURSIVE Gcd(_, _)
Gcd(a, b) == IF b = 0 THEN a ELSE Gcd(b, a % b)

Abs(x) == IF x < 0 THEN -x ELSE x

Rat(n, d) ==
    LET g == Gcd(Abs(n), Abs(d))
        s == IF d < 0 THEN -1 ELSE 1
    IN  <<(s * n) \div g, (s * d) \div g>>

RatAdd(p, q) == Rat(p[1] * q[2] + q[1] * p[2], p[2] * q[2])

Zero == Rat(0, 1)

-----------------------------------------------------------------------------
(* dict.get(key, default) *)
Get(d, k, default) == IF k \in DOMAIN d THEN d[k] ELSE default

(* f"idx_embedding_{index_type}_{tenant_id}" *)
IndexName(index_type, tenant) == "idx_embedding_" \o index_type \o "_" \o tenant

IndexNames == {IndexName(t, n) : t \in IndexTypes, n \in Tenants}

-----------------------------------------------------------------------------
(* agent/embeddings.py *)

(* an encode_query that catches the model's exception and returns no vector *)
encode_query_silent(query, model_fails) ==
    IF model_fails THEN [raised |-> FALSE, value |-> <<>>]
    ELSE [raised |-> FALSE, value |-> <<"embedding", query>>]

(* encode_query: the 384-dimensional vector of a text, kept abstract.  The
   model raises (or fails to load) as an exception of the call. *)
encode_query(query, model_fails) ==
    IF model_fails THEN [raised |-> TRUE, exc |-> "EmbeddingError"]
    ELSE [raised |-> FALSE, value |-> <<"embedding", query>>]

-----------------------------------------------------------------------------
(* agent/database.py: EXPLAIN *)

(* The marker substrings ('Scan', 'Index', 'Index Scan', 'Bitmap') that a
   'Node Type' label contains: Python's `marker in label`. *)
Markers(label) ==
    CASE label = "Seq Scan"          -> {"Scan"}
      [] label = "Index Scan"        -> {"Scan", "Index", "Index Scan"}
      [] label = "Index Only Scan"   -> {"Scan", "Index"}
      [] label = "Bitmap Heap Scan"  -> {"Scan", "Bitmap"}
      [] label = "Bitmap Index Scan" -> {"Scan", "Index", "Index Scan", "Bitmap"}
      [] OTHER                       -> {}

(* A plan node: a dict with 'Node Type' and, for inner nodes, 'Plans'. *)
Leaf(label) == "Node Type" :> label
Node(label, children) == ("Node Type" :> label) @@ ("Plans" :> children)

RECURSIVE PlanLabels(_)
PlanLabels(plan) ==
    (IF "Node Type" \in DOMAIN plan THEN {plan["Node Type"]} ELSE {})
    \cup (IF "Plans" \in DOMAIN plan
          THEN UNION {PlanLabels(plan["Plans"][i]) : i \in DOMAIN plan["Plans"]}
          ELSE {})

(* `marker in str(plan)`: the marker occurs in the printed plan, that is in
   one of its labels. *)
StrContains(plan, marker) == \E l \in PlanLabels(plan) : marker \in Markers(l)

CyclePlans ==
    { Node("Limit", <<Leaf("Seq Scan")>>),
      Node("Limit", <<Leaf("Index Scan")>>),
      Node("Limit", <<Leaf("Index Only Scan")>>),
      Leaf("Seq Scan") }

(* What cursor.execute / fetchone give for the EXPLAIN statement. *)
ExplainReplies ==
    { [kind |-> "raise"], [kind |-> "empty"], [kind |-> "emptyplan"] }
    \cup { [kind |-> "data", data |-> ("Plan" :> p) @@ ("Execution Time" :> t)] :
             p \in CyclePlans, t \in ExecTimes }
    \cup { [kind |-> "data", data |-> ("Plan" :> p)] : p \in CyclePlans }

(* an except branch that reports zero for the time it could not measure *)
DegradedAnalysis_zero ==
    [execution_time_ms |-> 0, scan_type |-> "ERROR", index_used |-> FALSE,
     planning_time_ms |-> 0, error |-> "EXPLAIN failed"]

(* The dict analyze_query returns from its except branch. *)
DegradedAnalysis ==
    [execution_time_ms |-> 100, scan_type |-> "ERROR", index_used |-> FALSE,
     planning_time_ms |-> 0, error |-> "EXPLAIN failed"]

analyze_query(embedding, reply) ==
    IF embedding = <<>>
    THEN [execution_time_ms |-> 100, scan_type |-> "ERROR", index_used |-> FALSE,
          planning_time_ms |-> 0]
    ELSE IF reply.kind # "data"
    THEN DegradedAnalysis
    ELSE LET explain_data == reply.data
             plan == Get(explain_data, "Plan", <<>>)
         IN  [execution_time_ms |-> Get(explain_data, "Execution Time", 0),
              scan_type |-> Get(plan, "Node Type", "Unknown"),
              index_used |-> StrContains(plan, "Index Scan") \/ StrContains(plan, "Bitmap"),
              planning_time_ms |-> Get(explain_data, "Planning Time", 0)]

(* log_query_metric that leaves a record although the INSERT raised *)
log_query_metric_counts_failures(log, insert_fails) == log + 1

(* log_query_metric / log_agent_action: the INSERT, or nothing when it raises
   (the except branch only rolls back). *)
log_query_metric(log, insert_fails) == IF insert_fails THEN log ELSE log + 1

log_agent_action(log, action_data, insert_fails) ==
    IF insert_fails THEN log ELSE Append(log, action_data)

(* create_index as create_index2 does it: drop and create, whatever exists *)
create_index_recreate(idx, index_name, check_fails) ==
    IF check_fails
    THEN [raised |-> TRUE, indexes |-> idx, created |-> 0]
    ELSE [raised |-> FALSE, indexes |-> idx \cup {index_name}, created |-> 1]

(* create_index over an execute_query that logs the error of the pg_indexes
   query and returns instead of raising it again *)
create_index_swallows(idx, index_name, check_fails) ==
    IF check_fails
    THEN [raised |-> FALSE, indexes |-> idx, created |-> 0]
    ELSE IF index_name \in idx
    THEN [raised |-> FALSE, indexes |-> idx, created |-> 0]
    ELSE [raised |-> FALSE, indexes |-> idx, created |-> 0]

(* create_index: the pg_indexes query, the early return when the index is
   there, and the statement text that is built when it is not.  The function
   ends after building that text: no statement is executed. *)
create_index(idx, index_name, check_fails) ==
    IF check_fails
    THEN [raised |-> TRUE, indexes |-> idx, created |-> 0]
    ELSE IF index_name \in idx
    THEN [raised |-> FALSE, indexes |-> idx, created |-> 0]
    ELSE [raised |-> FALSE, indexes |-> idx, created |-> 0]

-----------------------------------------------------------------------------
(* agent/query_analyzer.py *)

(* a scan_types table with an entry for the bitmap index scan *)
scan_types_bitmap_index(node_type) ==
    CASE node_type = "Seq Scan"          -> "sequential"
      [] node_type = "Index Scan"        -> "index"
      [] node_type = "Index Only Scan"   -> "index_only"
      [] node_type = "Bitmap Heap Scan"  -> "bitmap"
      [] node_type = "Bitmap Index Scan" -> "bitmap"
      [] OTHER                           -> "unknown"

(* self.scan_types.get(node_type, 'unknown') *)
scan_types(node_type) ==
    CASE node_type = "Seq Scan"         -> "sequential"
      [] node_type = "Index Scan"       -> "index"
      [] node_type = "Index Only Scan"  -> "index_only"
      [] node_type = "Bitmap Heap Scan" -> "bitmap"
      [] OTHER                          -> "unknown"

RECURSIVE extract_scan_info(_, _)
RECURSIVE MergeChildren(_, _, _, _)

(* the loop without the sum of the children's rows *)
MergeChildren_own_rows(info, children, i, level) ==
    IF i > Len(children) THEN info
    ELSE LET child_info == extract_scan_info(children[i], level + 1)
             take == ~info.index_used /\ child_info.index_used
             merged ==
                 [primary_scan |-> info.primary_scan,
                  index_used |-> IF take THEN child_info.index_used ELSE info.index_used,
                  index_name |-> IF take THEN child_info.index_name ELSE info.index_name,
                  rows_scanned |-> info.rows_scanned,
                  scans_found |-> info.scans_found \o child_info.scans_found]
         IN  MergeChildren(merged, children, i + 1, level)

(* the loop taking the index of every child that has one *)
MergeChildren_last_wins(info, children, i, level) ==
    IF i > Len(children) THEN info
    ELSE LET child_info == extract_scan_info(children[i], level + 1)
             take == child_info.index_used
             merged ==
                 [primary_scan |-> info.primary_scan,
                  index_used |-> IF take THEN child_info.index_used ELSE info.index_used,
                  index_name |-> IF take THEN child_info.index_name ELSE info.index_name,
                  rows_scanned |-> info.rows_scanned + child_info.rows_scanned,
                  scans_found |-> info.scans_found \o child_info.scans_found]
         IN  MergeChildren(merged, children, i + 1, level)

(* the loop over plan['Plans'], from child i on *)
MergeChildren(info, children, i, level) ==
    IF i > Len(children) THEN info
    ELSE LET child_info == extract_scan_info(children[i], level + 1)
             take == ~info.index_used /\ child_info.index_used
             merged ==
                 [primary_scan |-> info.primary_scan,
                  index_used |-> IF take THEN child_info.index_used ELSE info.index_used,
                  index_name |-> IF take THEN child_info.index_name ELSE info.index_name,
                  rows_scanned |-> info.rows_scanned + child_info.rows_scanned,
                  scans_found |-> info.scans_found \o child_info.scans_found]
         IN  MergeChildren(merged, children, i + 1, level)

extract_scan_info(plan, level) ==
    LET node_type == Get(plan, "Node Type", "")
        is_scan == "Scan" \in Markers(node_type)
        is_index == "Index" \in Markers(node_type)
        own ==
            [primary_scan |-> IF is_scan /\ level = 0 THEN scan_types(node_type)
                              ELSE "unknown",
             index_used |-> is_scan /\ is_index,
             index_name |-> IF is_scan /\ is_index THEN Get(plan, "Index Name", None)
                            ELSE None,
             rows_scanned |-> IF is_scan THEN Get(plan, "Actual Rows", 0) ELSE 0,
             scans_found |-> IF is_scan THEN <<node_type>> ELSE <<>>]
    IN  IF "Plans" \in DOMAIN plan
        THEN MergeChildren(own, plan["Plans"], 1, level)
        ELSE own

(* the rules with >= for > on the size of a sequential scan *)
detect_issues_ge(plan, scan_info, execution_time) ==
    LET rows_returned == Get(plan, "Actual Rows", 0)
    IN  (IF scan_info.primary_scan = "sequential"
         THEN IF scan_info.rows_scanned >= 1000
              THEN <<"SEQUENTIAL_SCAN_LARGE_DATASET">>
              ELSE <<"SEQUENTIAL_SCAN_SMALL_DATASET">>
         ELSE <<>>)
        \o (IF execution_time > 100 THEN <<"HIGH_EXECUTION_TIME">> ELSE <<>>)
        \o (IF ~scan_info.index_used /\ scan_info.rows_scanned > 500
            THEN <<"NO_INDEX_AVAILABLE">> ELSE <<>>)
        \o (IF scan_info.rows_scanned > 0
               /\ rows_returned * 10 < scan_info.rows_scanned
               /\ scan_info.rows_scanned > 1000
            THEN <<"LOW_SELECTIVITY">> ELSE <<>>)

(* _detect_issues; rows_returned / rows_scanned < 0.1 on non-negative integers *)
detect_issues(plan, scan_info, execution_time) ==
    LET rows_returned == Get(plan, "Actual Rows", 0)
    IN  (IF scan_info.primary_scan = "sequential"
         THEN IF scan_info.rows_scanned > 1000
              THEN <<"SEQUENTIAL_SCAN_LARGE_DATASET">>
              ELSE <<"SEQUENTIAL_SCAN_SMALL_DATASET">>
         ELSE <<>>)
        \o (IF execution_time > 100 THEN <<"HIGH_EXECUTION_TIME">> ELSE <<>>)
        \o (IF ~scan_info.index_used /\ scan_info.rows_scanned > 500
            THEN <<"NO_INDEX_AVAILABLE">> ELSE <<>>)
        \o (IF scan_info.rows_scanned > 0
               /\ rows_returned * 10 < scan_info.rows_scanned
               /\ scan_info.rows_scanned > 1000
            THEN <<"LOW_SELECTIVITY">> ELSE <<>>)

InSeq(x, seq) == \E i \in DOMAIN seq : seq[i] = x

(* the recommendation records, by type, priority and action *)
generate_recommendations(issues, scan_info) ==
    (IF InSeq("SEQUENTIAL_SCAN_LARGE_DATASET", issues)
     THEN <<[type |-> "CREATE_INDEX", priority |-> "HIGH", action |-> "create_hnsw_index"]>>
     ELSE <<>>)
    \o (IF InSeq("HIGH_EXECUTION_TIME", issues) /\ ~scan_info.index_used
        THEN <<[type |-> "CREATE_INDEX", priority |-> "HIGH", action |-> "create_hnsw_index"]>>
        ELSE <<>>)
    \o (IF InSeq("NO_INDEX_AVAILABLE", issues)
        THEN <<[type |-> "CREATE_INDEX", priority |-> "MEDIUM",
                action |-> "create_ivfflat_index"]>>
        ELSE <<>>)
    \o (IF InSeq("LOW_SELECTIVITY", issues)
        THEN <<[type |-> "OPTIMIZE_QUERY", priority |-> "MEDIUM", action |-> "add_filters"]>>
        ELSE <<>>)

(* analyze_plan on an EXPLAIN output that has a 'Plan' *)
analyze_plan(explain_output) ==
    LET plan == explain_output["Plan"]
        execution_time == Get(explain_output, "Execution Time", 0)
        planning_time == Get(explain_output, "Planning Time", 0)
        scan_info == extract_scan_info(plan, 0)
        issues == detect_issues(plan, scan_info, execution_time)
    IN  [execution_time_ms |-> execution_time,
         planning_time_ms |-> planning_time,
         total_time_ms |-> execution_time + planning_time,
         scan_type |-> scan_info.primary_scan,
         index_used |-> scan_info.index_used,
         rows_scanned |-> scan_info.rows_scanned,
         rows_returned |-> Get(plan, "Actual Rows", 0),
         issues |-> issues,
         recommendations |-> generate_recommendations(issues, scan_info)]

(* Plans and times handed to the analyzer: scans of 40000 to 200000 rows,
   with and without an index, at the root or under a Limit. *)
ScanNode(label, rows) == ("Node Type" :> label) @@ ("Actual Rows" :> rows)
LimitOver(child) ==
    ("Node Type" :> "Limit") @@ ("Actual Rows" :> 5) @@ ("Plans" :> <<child>>)

AnalyzerRows == {0, 40000, 50000, 99999, 100000, 200000}
AnalyzerTimes == {0, 100, 101, 150, 180, 200, 201, 250}

AnalyzerPlans ==
    { ScanNode("Seq Scan", n) : n \in AnalyzerRows }
    \cup { LimitOver(ScanNode("Seq Scan", n)) : n \in {50000, 200000} }
    \cup { ScanNode("Index Scan", n) @@ ("Index Name" :> "idx_embedding_hnsw_default") :
             n \in {5, 40000} }

AnalyzerOutputs ==
    { ("Plan" :> p) @@ ("Execution Time" :> t) : p \in AnalyzerPlans, t \in AnalyzerTimes }

-----------------------------------------------------------------------------
(* agent/optimizer.py *)

(* An oracle reply: what its ACTION line says ("" when it has none), the
   recognised words met elsewhere in the text, and whether it carries the
   REASONING: and EXPECTED_IMPROVEMENT: lines. *)
LineTokens(line) ==
    CASE line = "create_hnsw_index"    -> {"create_hnsw_index", "hnsw"}
      [] line = "create_ivfflat_index" -> {"create_ivfflat_index", "ivfflat"}
      [] line = "optimize_query"       -> {"optimize_query"}
      [] OTHER                         -> {}

(* `token in llm_output.lower()` *)
InReply(token, llm_output) ==
    token \in (LineTokens(llm_output.action_line) \cup llm_output.mentions)

Reply(line, words, lines) ==
    [action_line |-> line, mentions |-> words, has_lines |-> lines]

CycleReplies ==
    { Reply(a, {}, TRUE) : a \in Actions }
    \cup { Reply("", {}, FALSE), Reply("no_action", {"hnsw"}, TRUE) }

(* What ollama.chat does: a reply, or an exception (transport error, timeout,
   a response without message.content). *)
OracleOutcomes ==
    { [kind |-> "fail"] } \cup { [kind |-> "reply", text |-> r] : r \in CycleReplies }

(* the confidence thresholds with >= for > *)
confidence_of_ge(analysis) ==
    IF analysis.execution_time_ms >= 200 THEN "high"
    ELSE IF analysis.execution_time_ms >= 100 THEN "medium"
    ELSE "low"

(* _parse_llm_response, "Set confidence based on analysis" *)
confidence_of(analysis) ==
    IF analysis.execution_time_ms > 200 THEN "high"
    ELSE IF analysis.execution_time_ms > 100 THEN "medium"
    ELSE "low"

(* _parse_llm_response with index_type preset to hnsw instead of None *)
parse_llm_response_typed(llm_output, analysis) ==
    LET action ==
            IF InReply("create_hnsw_index", llm_output) \/ InReply("hnsw", llm_output)
            THEN "create_hnsw_index"
            ELSE IF InReply("create_ivfflat_index", llm_output)
                    \/ InReply("ivfflat", llm_output)
            THEN "create_ivfflat_index"
            ELSE IF InReply("optimize_query", llm_output)
            THEN "optimize_query"
            ELSE "no_action"
        index_type ==
            IF action = "create_ivfflat_index" THEN "ivfflat"
            ELSE "hnsw"
    IN  [action |-> action,
         reasoning |-> IF llm_output.has_lines THEN "reasoning line" ELSE "llm_output",
         index_type |-> index_type,
         expected_improvement |->
             IF llm_output.has_lines THEN "improvement line" ELSE "Unknown",
         confidence |-> confidence_of(analysis)]

(* _parse_llm_response: the action by the tokens of the reply, the lines, the
   confidence by execution time *)
parse_llm_response(llm_output, analysis) ==
    LET action ==
            IF InReply("create_hnsw_index", llm_output) \/ InReply("hnsw", llm_output)
            THEN "create_hnsw_index"
            ELSE IF InReply("create_ivfflat_index", llm_output)
                    \/ InReply("ivfflat", llm_output)
            THEN "create_ivfflat_index"
            ELSE IF InReply("optimize_query", llm_output)
            THEN "optimize_query"
            ELSE "no_action"
        index_type ==
            IF action = "create_hnsw_index" THEN "hnsw"
            ELSE IF action = "create_ivfflat_index" THEN "ivfflat"
            ELSE None
    IN  [action |-> action,
         reasoning |-> IF llm_output.has_lines THEN "reasoning line" ELSE "llm_output",
         index_type |-> index_type,
         expected_improvement |->
             IF llm_output.has_lines THEN "improvement line" ELSE "Unknown",
         confidence |-> confidence_of(analysis)]

(* the fallback rule met at 100 ms *)
fallback_decision_ge(analysis) ==
    IF analysis.execution_time_ms >= 100 /\ ~analysis.index_used
    THEN IF "rows_scanned" \notin DOMAIN analysis
         THEN [raised |-> TRUE, exc |-> "KeyError"]
         ELSE IF analysis.rows_scanned < 100000
         THEN [raised |-> FALSE,
               value |-> [action |-> "create_hnsw_index",
                          reasoning |-> "Dataset size suitable for HNSW. High performance required.",
                          index_type |-> "hnsw",
                          expected_improvement |-> "10-50x faster",
                          confidence |-> "low"]]
         ELSE [raised |-> FALSE,
               value |-> [action |-> "create_ivfflat_index",
                          reasoning |-> "Large dataset. IVFFlat more memory efficient.",
                          index_type |-> "ivfflat",
                          expected_improvement |-> "20-30x faster",
                          confidence |-> "low"]]
    ELSE [raised |-> FALSE,
          value |-> [action |-> "no_action",
                     reasoning |-> "Fallback rule-based decision",
                     index_type |-> None,
                     expected_improvement |-> "Unknown",
                     confidence |-> "low"]]

(* the fallback rule with <= for < on the row threshold *)
fallback_decision_le(analysis) ==
    IF analysis.execution_time_ms > 100 /\ ~analysis.index_used
    THEN IF "rows_scanned" \notin DOMAIN analysis
         THEN [raised |-> TRUE, exc |-> "KeyError"]
         ELSE IF analysis.rows_scanned <= 100000
         THEN [raised |-> FALSE,
               value |-> [action |-> "create_hnsw_index",
                          reasoning |-> "Dataset size suitable for HNSW. High performance required.",
                          index_type |-> "hnsw",
                          expected_improvement |-> "10-50x faster",
                          confidence |-> "low"]]
         ELSE [raised |-> FALSE,
               value |-> [action |-> "create_ivfflat_index",
                          reasoning |-> "Large dataset. IVFFlat more memory efficient.",
                          index_type |-> "ivfflat",
                          expected_improvement |-> "20-30x faster",
                          confidence |-> "low"]]
    ELSE [raised |-> FALSE,
          value |-> [action |-> "no_action",
                     reasoning |-> "Fallback rule-based decision",
                     index_type |-> None,
                     expected_improvement |-> "Unknown",
                     confidence |-> "low"]]

(* _fallback_decision: the rule, with the KeyError of analysis['rows_scanned']
   on a dict that has no such key. *)
fallback_decision(analysis) ==
    IF analysis.execution_time_ms > 100 /\ ~analysis.index_used
    THEN IF "rows_scanned" \notin DOMAIN analysis
         THEN [raised |-> TRUE, exc |-> "KeyError"]
         ELSE IF analysis.rows_scanned < 100000
         THEN [raised |-> FALSE,
               value |-> [action |-> "create_hnsw_index",
                          reasoning |-> "Dataset size suitable for HNSW. High performance required.",
                          index_type |-> "hnsw",
                          expected_improvement |-> "10-50x faster",
                          confidence |-> "low"]]
         ELSE [raised |-> FALSE,
               value |-> [action |-> "create_ivfflat_index",
                          reasoning |-> "Large dataset. IVFFlat more memory efficient.",
                          index_type |-> "ivfflat",
                          expected_improvement |-> "20-30x faster",
                          confidence |-> "low"]]
    ELSE [raised |-> FALSE,
          value |-> [action |-> "no_action",
                     reasoning |-> "Fallback rule-based decision",
                     index_type |-> None,
                     expected_improvement |-> "Unknown",
                     confidence |-> "low"]]

(* decide_optimization: the chat call in its try, the fallback in its except;
   an exception of the fallback leaves the function. *)
decide_optimization(analysis, oracle) ==
    IF oracle.kind = "reply"
    THEN [raised |-> FALSE, value |-> parse_llm_response(oracle.text, analysis)]
    ELSE fallback_decision(analysis)

(* generate_sql with a statement for optimize_query *)
generate_sql_optimize(d, tenant) ==
    IF d.action = "create_hnsw_index"
    THEN "CREATE INDEX IF NOT EXISTS " \o ("idx_embedding_hnsw_" \o tenant)
         \o " ON rag_system.documents USING hnsw (embedding vector_cosine_ops)"
         \o " WITH (m = 16, ef_construction = 64);"
    ELSE IF d.action = "create_ivfflat_index"
    THEN "CREATE INDEX IF NOT EXISTS " \o ("idx_embedding_ivfflat_" \o tenant)
         \o " ON rag_system.documents USING ivfflat (embedding vector_cosine_ops)"
         \o " WITH (lists = 100);"
    ELSE IF d.action = "optimize_query"
    THEN "ANALYZE rag_system.documents;"
    ELSE None

(* generate_sql with the hnsw index name copied into the ivfflat statement *)
generate_sql_hnsw_name(d, tenant) ==
    IF d.action = "create_hnsw_index"
    THEN "CREATE INDEX IF NOT EXISTS " \o ("idx_embedding_hnsw_" \o tenant)
         \o " ON rag_system.documents USING hnsw (embedding vector_cosine_ops)"
         \o " WITH (m = 16, ef_construction = 64);"
    ELSE IF d.action = "create_ivfflat_index"
    THEN "CREATE INDEX IF NOT EXISTS " \o ("idx_embedding_hnsw_" \o tenant)
         \o " ON rag_system.documents USING ivfflat (embedding vector_cosine_ops)"
         \o " WITH (lists = 100);"
    ELSE None

(* generate_sql: the statement text, None for an action without one *)
generate_sql(d, tenant) ==
    IF d.action = "create_hnsw_index"
    THEN "CREATE INDEX IF NOT EXISTS " \o ("idx_embedding_hnsw_" \o tenant)
         \o " ON rag_system.documents USING hnsw (embedding vector_cosine_ops)"
         \o " WITH (m = 16, ef_construction = 64);"
    ELSE IF d.action = "create_ivfflat_index"
    THEN "CREATE INDEX IF NOT EXISTS " \o ("idx_embedding_ivfflat_" \o tenant)
         \o " ON rag_system.documents USING ivfflat (embedding vector_cosine_ops)"
         \o " WITH (lists = 100);"
    ELSE None

-----------------------------------------------------------------------------
(* agent/agent_core.py *)

(* observe with the latency threshold met at 20 ms *)
observe_ge(embedding, reply) ==
    LET analysis == analyze_query(embedding, reply)
        issues == (IF analysis.execution_time_ms >= 20 THEN <<"high_latency">> ELSE <<>>)
                  \o (IF ~analysis.index_used THEN <<"missing_index">> ELSE <<>>)
    IN  analysis @@ [issues |-> issues]

(* observe: the analysis of the EXPLAIN reply with the two coarse issues. *)
observe(embedding, reply) ==
    LET analysis == analyze_query(embedding, reply)
        issues == (IF analysis.execution_time_ms > 20 THEN <<"high_latency">> ELSE <<>>)
                  \o (IF ~analysis.index_used THEN <<"missing_index">> ELSE <<>>)
    IN  analysis @@ [issues |-> issues]

(* reason without its test of the issue list *)
reason_always_consults(analysis, oracle) ==
    decide_optimization(analysis, oracle) @@ [called |-> TRUE]

(* reason: no_action without a call when there is no issue, else the
   optimizer's decision.  `called` tells whether ollama.chat was called. *)
reason(analysis, oracle) ==
    IF analysis.issues = <<>>
    THEN [raised |-> FALSE, called |-> FALSE,
          value |-> [action |-> "no_action", reasoning |-> "Performance is acceptable"]]
    ELSE decide_optimization(analysis, oracle) @@ [called |-> TRUE]

(* the improvement as the change relative to the new time, with the sign of
   a slowdown *)
improvement_percentage_swapped(time_before, time_after) ==
    Rat((time_after - time_before) * 100, time_before)

(* improvement = ((time_before - time_after) / time_before) * 100, and the
   ZeroDivisionError of its quotient *)
improvement_percentage(time_before, time_after) ==
    Rat((time_before - time_after) * 100, time_before)

improvement_raises(time_before) == time_before = 0

(* The words ('create_', 'index') that an action name contains *)
ActionWords(action) ==
    CASE action = "create_hnsw_index"    -> {"create_", "index"}
      [] action = "create_ivfflat_index" -> {"create_", "index"}
      [] OTHER                           -> {}

(* a test for words that no action name contains *)
IsCreateIndex_none(action) == "create-" \in ActionWords(action) /\ "index" \in ActionWords(action)

(* `'create_' in decision['action'] and 'index' in decision['action']` in act *)
IsCreateIndex(action) == "create_" \in ActionWords(action) /\ "index" \in ActionWords(action)

(* a test that every action name passes *)
HasCreatePrefix_any(action) == TRUE

(* `'create_' in decision['action']` in run_optimization_cycle *)
HasCreatePrefix(action) == "create_" \in ActionWords(action)

(* act with the counter incremented after a failed create_index as well *)
act_counts_failures(d, tenant, idx, log, count, check_fails, insert_fails) ==
    LET untouched == [indexes |-> idx, created |-> 0, checks |-> 0,
                      action_log |-> log, optimization_count |-> count,
                      failures |-> {}]
        log_failures == IF insert_fails THEN {"action_log"} ELSE {}
        sql == generate_sql(d, tenant)
    IN  IF d.action = "no_action"
        THEN untouched @@ [result |-> [success |-> TRUE, message |-> "No action taken"]]
        ELSE IF sql = None
        THEN untouched @@ [result |-> [action |-> d.action, success |-> FALSE,
                                       sql_executed |-> None,
                                       error |-> "No SQL generated"]]
        ELSE IF IsCreateIndex(d.action)
        THEN LET r == create_index(idx, IndexName(d.index_type, tenant), check_fails)
             IN  IF r.raised
                 THEN [indexes |-> r.indexes, created |-> r.created, checks |-> 1,
                       action_log |-> log, optimization_count |-> count + 1,
                       failures |-> {"index_check"},
                       result |-> [action |-> d.action, success |-> FALSE,
                                   sql_executed |-> sql, error |-> "storage error"]]
                 ELSE [indexes |-> r.indexes, created |-> r.created, checks |-> 1,
                       action_log |-> log_agent_action(log, d.action, insert_fails),
                       optimization_count |-> count + 1,
                       failures |-> (IF check_fails THEN {"index_check"} ELSE {})
                                    \cup log_failures,
                       result |-> [action |-> d.action, success |-> TRUE,
                                   sql_executed |-> sql, error |-> None]]
        ELSE [indexes |-> idx, created |-> 0, checks |-> 0,
              action_log |-> log_agent_action(log, d.action, insert_fails),
              optimization_count |-> count + 1,
              failures |-> log_failures,
              result |-> [action |-> d.action, success |-> FALSE,
                          sql_executed |-> sql, error |-> None]]

(* act without the early return for no_action *)
act_no_return(d, tenant, idx, log, count, check_fails, insert_fails) ==
    LET untouched == [indexes |-> idx, created |-> 0, checks |-> 0,
                      action_log |-> log, optimization_count |-> count,
                      failures |-> {}]
        log_failures == IF insert_fails THEN {"action_log"} ELSE {}
        sql == generate_sql(d, tenant)
    IN  IF sql = None
        THEN untouched @@ [result |-> [action |-> d.action, success |-> FALSE,
                                       sql_executed |-> None,
                                       error |-> "No SQL generated"]]
        ELSE IF IsCreateIndex(d.action)
        THEN LET r == create_index(idx, IndexName(d.index_type, tenant), check_fails)
             IN  IF r.raised
                 THEN [indexes |-> r.indexes, created |-> r.created, checks |-> 1,
                       action_log |-> log, optimization_count |-> count,
                       failures |-> {"index_check"},
                       result |-> [action |-> d.action, success |-> FALSE,
                                   sql_executed |-> sql, error |-> "storage error"]]
                 ELSE [indexes |-> r.indexes, created |-> r.created, checks |-> 1,
                       action_log |-> log_agent_action(log, d.action, insert_fails),
                       optimization_count |-> count + 1,
                       failures |-> (IF check_fails THEN {"index_check"} ELSE {})
                                    \cup log_failures,
                       result |-> [action |-> d.action, success |-> TRUE,
                                   sql_executed |-> sql, error |-> None]]
        ELSE [indexes |-> idx, created |-> 0, checks |-> 0,
              action_log |-> log_agent_action(log, d.action, insert_fails),
              optimization_count |-> count + 1,
              failures |-> log_failures,
              result |-> [action |-> d.action, success |-> FALSE,
                          sql_executed |-> sql, error |-> None]]

(* act: the ActionResult and the effects of one call on the storage engine
   and on optimization_count. *)
act(d, tenant, idx, log, count, check_fails, insert_fails) ==
    LET untouched == [indexes |-> idx, created |-> 0, checks |-> 0,
                      action_log |-> log, optimization_count |-> count,
                      failures |-> {}]
        log_failures == IF insert_fails THEN {"action_log"} ELSE {}
        sql == generate_sql(d, tenant)
    IN  IF d.action = "no_action"
        THEN untouched @@ [result |-> [success |-> TRUE, message |-> "No action taken"]]
        ELSE IF sql = None
        THEN untouched @@ [result |-> [action |-> d.action, success |-> FALSE,
                                       sql_executed |-> None,
                                       error |-> "No SQL generated"]]
        ELSE IF IsCreateIndex(d.action)
        THEN LET r == create_index(idx, IndexName(d.index_type, tenant), check_fails)
             IN  IF r.raised
                 THEN [indexes |-> r.indexes, created |-> r.created, checks |-> 1,
                       action_log |-> log, optimization_count |-> count,
                       failures |-> {"index_check"},
                       result |-> [action |-> d.action, success |-> FALSE,
                                   sql_executed |-> sql, error |-> "storage error"]]
                 ELSE [indexes |-> r.indexes, created |-> r.created, checks |-> 1,
                       action_log |-> log_agent_action(log, d.action, insert_fails),
                       optimization_count |-> count + 1,
                       failures |-> (IF check_fails THEN {"index_check"} ELSE {})
                                    \cup log_failures,
                       result |-> [action |-> d.action, success |-> TRUE,
                                   sql_executed |-> sql, error |-> None]]
        ELSE [indexes |-> idx, created |-> 0, checks |-> 0,
              action_log |-> log_agent_action(log, d.action, insert_fails),
              optimization_count |-> count + 1,
              failures |-> log_failures,
              result |-> [action |-> d.action, success |-> FALSE,
                          sql_executed |-> sql, error |-> None]]

(* get_statistics: total_improvement / max(optimization_count, 1) *)
get_statistics(count, total) ==
    LET divisor == IF count > 1 THEN count ELSE 1
    IN  [optimizations_performed |-> count,
         average_improvement |-> Rat(total[1], total[2] * divisor),
         total_improvement |-> total]

-----------------------------------------------------------------------------
(* The state machine: scripts/benchmark.py calls run_optimization_cycle once
   per query; each action is one call the cycle makes. *)

(* The agent after __init__, before any call *)
Fresh ==
    /\ create_count = 0
    /\ metric_log = 0
    /\ action_log = <<>>
    /\ optimization_count = 0
    /\ total_improvement = Zero
    /\ cycles = 0
    /\ tenant_id = None
    /\ query_embedding = Null
    /\ decision = Null
    /\ action_result = Null
    /\ analysis_after = Null
    /\ improvement = Null
    /\ exception = None
    /\ oracle_calls = 0
    /\ oracle_failed = FALSE
    /\ index_checks = 0
    /\ inserts_fail = FALSE
    /\ act_history = <<>>
    /\ storage_failures = {}

Constructed ==
    /\ Fresh
    /\ workers = <<>>
    /\ analyzer = Null
    /\ oracle_reply = Null

(* The database holds at most one of the agent's indexes when the agent starts. *)
InitialIndexes == { {} } \cup { {n} : n \in IndexNames }

Init ==
    /\ indexes \in InitialIndexes
    /\ pc = "Idle"
    /\ analysis_before = Null
    /\ Constructed

(* run_optimization_cycle, up to the embedding of the query text *)
StartCycle(query_text, tenant, model_fails, log_down) ==
    /\ pc \in {"Idle", "Done"}
    /\ cycles' = cycles + 1
    /\ tenant_id' = tenant
    /\ inserts_fail' = log_down
    /\ LET e == encode_query(query_text, model_fails)
       IN  IF e.raised
           THEN /\ pc' = "Raised"
                /\ exception' = e.exc
                /\ query_embedding' = Null
           ELSE /\ pc' = "Observing"
                /\ exception' = None
                /\ query_embedding' = e.value
    /\ analysis_before' = Null
    /\ decision' = Null
    /\ action_result' = Null
    /\ analysis_after' = Null
    /\ improvement' = Null
    /\ oracle_calls' = 0
    /\ oracle_failed' = FALSE
    /\ index_checks' = 0
    /\ storage_failures' = {}
    /\ UNCHANGED <<storage, stats, act_history, workers, analyzer, oracle_reply>>

(* analysis_before = self.observe(query_embedding, tenant_id) *)
Observe(reply) ==
    /\ pc = "Observing"
    /\ analysis_before' = observe(query_embedding, reply)
    /\ metric_log' = log_query_metric(metric_log, inserts_fail)
    /\ pc' = "Reasoning"
    /\ UNCHANGED <<indexes, create_count, action_log, stats, cycles, tenant_id,
                   query_embedding, decision, action_result, analysis_after,
                   improvement, exception, oracle_calls, oracle_failed,
                   index_checks, inserts_fail, storage_failures, act_history, workers, analyzer, oracle_reply>>

(* decision = self.reason(analysis_before) *)
Reason(oracle) ==
    /\ pc = "Reasoning"
    /\ LET r == reason(analysis_before, oracle)
       IN  /\ oracle_calls' = IF r.called THEN oracle_calls + 1 ELSE oracle_calls
           /\ oracle_failed' = (r.called /\ oracle.kind = "fail")
           /\ IF r.raised
              THEN /\ pc' = "Raised"
                   /\ exception' = r.exc
                   /\ decision' = decision
              ELSE /\ pc' = "Acting"
                   /\ exception' = exception
                   /\ decision' = r.value
    /\ UNCHANGED <<storage, stats, cycles, tenant_id, query_embedding,
                   analysis_before, action_result, analysis_after, improvement,
                   index_checks, inserts_fail, storage_failures, act_history, workers, analyzer, oracle_reply>>

(* Act that sends a failed action back to the decision engine *)
Act_retry(check_fails) ==
    /\ pc = "Acting"
    /\ LET a == act(decision, tenant_id, indexes, action_log, optimization_count,
                    check_fails, inserts_fail)
       IN  /\ indexes' = a.indexes
           /\ create_count' = create_count + a.created
           /\ index_checks' = index_checks + a.checks
           /\ action_log' = a.action_log
           /\ optimization_count' = a.optimization_count
           /\ action_result' = a.result
           /\ storage_failures' = a.failures
           /\ pc' = IF a.result.success /\ HasCreatePrefix(decision.action)
                    THEN "Verifying"
                    ELSE IF ~a.result.success /\ decision.action # "no_action"
                    THEN "Reasoning" ELSE "Done"
    /\ UNCHANGED <<metric_log, total_improvement, cycles, tenant_id, query_embedding,
                   analysis_before, decision, analysis_after, improvement,
                   exception, oracle_calls, oracle_failed, inserts_fail,
                   act_history, workers, analyzer, oracle_reply>>

(* action_result = self.act(decision, tenant_id), and the test that decides
   whether the cycle verifies *)
Act(check_fails) ==
    /\ pc = "Acting"
    /\ LET a == act(decision, tenant_id, indexes, action_log, optimization_count,
                    check_fails, inserts_fail)
       IN  /\ indexes' = a.indexes
           /\ create_count' = create_count + a.created
           /\ index_checks' = index_checks + a.checks
           /\ action_log' = a.action_log
           /\ optimization_count' = a.optimization_count
           /\ action_result' = a.result
           /\ storage_failures' = a.failures
           /\ pc' = IF a.result.success /\ HasCreatePrefix(decision.action)
                    THEN "Verifying" ELSE "Done"
    /\ UNCHANGED <<metric_log, total_improvement, cycles, tenant_id, query_embedding,
                   analysis_before, decision, analysis_after, improvement,
                   exception, oracle_calls, oracle_failed, inserts_fail,
                   act_history, workers, analyzer, oracle_reply>>

(* the VERIFY block: the second observe, the improvement and its sum *)
Verify(reply) ==
    /\ pc = "Verifying"
    /\ LET after == observe(query_embedding, reply)
           time_before == analysis_before.execution_time_ms
           time_after == after.execution_time_ms
       IN  /\ analysis_after' = after
           /\ metric_log' = log_query_metric(metric_log, inserts_fail)
           /\ IF improvement_raises(time_before)
              THEN /\ pc' = "Raised"
                   /\ exception' = "ZeroDivisionError"
                   /\ UNCHANGED <<improvement, total_improvement>>
              ELSE /\ pc' = "Done"
                   /\ exception' = exception
                   /\ improvement' = improvement_percentage(time_before, time_after)
                   /\ total_improvement' = RatAdd(total_improvement, improvement')
    /\ UNCHANGED <<indexes, create_count, action_log, optimization_count, cycles,
                   tenant_id, query_embedding, analysis_before, decision,
                   action_result, oracle_calls, oracle_failed, index_checks,
                   inserts_fail, storage_failures, act_history, workers, analyzer, oracle_reply>>

(* scripts/clean_indexes.py, run between cycles *)
CleanIndexes ==
    /\ pc \in {"Idle", "Done", "Direct"}
    /\ indexes # {}
    /\ indexes' = indexes \ { "idx_embedding_hnsw_wikipedia",
                              "idx_embedding_ivfflat_wikipedia",
                              "idx_embedding_hnsw_default",
                              "idx_embedding_ivfflat_default" }
    /\ act_history' = <<>>
    /\ UNCHANGED <<create_count, metric_log, action_log, stats, pc, cycles, locals,
                   workers, analyzer, oracle_reply>>

Next ==
    \/ /\ cycles < MaxCycles
       /\ \E q \in QueryTexts, t \in Tenants, f \in BOOLEAN, l \in BOOLEAN :
             StartCycle(q, t, f, l)
    \/ \E r \in ExplainReplies : Observe(r)
    \/ \E o \in OracleOutcomes : Reason(o)
    \/ \E c \in BOOLEAN : Act(c)
    \/ \E r \in ExplainReplies : Verify(r)
    \/ CleanIndexes

Spec == Init /\ [][Next]_vars

-----------------------------------------------------------------------------
(* scripts/benchmark.py on a healthy installation: several cycles in a row for
   tenant 'wikipedia', the query measured at 12 ms or at 120 ms, the oracle
   answering with an index to create or with no_action. *)

MaxBenchmarkCycles == 2

BenchmarkReplies ==
    { [kind |-> "data", data |-> ("Plan" :> Leaf("Seq Scan")) @@ ("Execution Time" :> t)] :
        t \in {12, 120} }

BenchmarkOracle ==
    { [kind |-> "reply", text |-> Reply(a, {}, TRUE)] : a \in {"create_hnsw_index", "no_action"} }

NextBenchmark ==
    \/ /\ cycles < MaxBenchmarkCycles
       /\ \E q \in QueryTexts : StartCycle(q, "wikipedia", FALSE, FALSE)
    \/ \E r \in BenchmarkReplies : Observe(r)
    \/ \E o \in BenchmarkOracle : Reason(o)
    \/ Act(FALSE)
    \/ \E r \in BenchmarkReplies : Verify(r)

SpecBenchmark == Init /\ [][NextBenchmark]_vars

-----------------------------------------------------------------------------
(* LLMOptimizer.decide_optimization called on an analysis of QueryAnalyzer,
   the input its docstring names: such an analysis carries rows_scanned. *)

InitDecide ==
    /\ indexes = {}
    /\ pc = "Analyzed"
    /\ analysis_before \in { analyze_plan(o) : o \in AnalyzerOutputs }
    /\ Constructed

Decide(oracle) ==
    /\ pc = "Analyzed"
    /\ LET r == decide_optimization(analysis_before, oracle)
       IN  /\ oracle_calls' = oracle_calls + 1
           /\ oracle_failed' = (oracle.kind = "fail")
           /\ oracle_reply' = IF oracle.kind = "reply" THEN oracle.text ELSE Null
           /\ IF r.raised
              THEN /\ pc' = "Raised"
                   /\ exception' = r.exc
                   /\ decision' = decision
              ELSE /\ pc' = "Decided"
                   /\ exception' = exception
                   /\ decision' = r.value
    /\ UNCHANGED <<storage, stats, cycles, tenant_id, query_embedding,
                   analysis_before, action_result, analysis_after, improvement,
                   index_checks, inserts_fail, storage_failures, act_history, workers, analyzer>>

(* replies whose words outside the ACTION line name an index type *)
DecideReplies ==
    CycleReplies
    \cup { Reply("create_ivfflat_index", {"hnsw"}, TRUE),
           Reply("no_action", {"ivfflat"}, TRUE),
           Reply("optimize_query", {"ivfflat"}, TRUE),
           Reply("", {"hnsw", "ivfflat"}, FALSE) }

DecideOutcomes ==
    { [kind |-> "fail"] } \cup { [kind |-> "reply", text |-> r] : r \in DecideReplies }

NextDecide == \E o \in DecideOutcomes : Decide(o)

SpecDecide == InitDecide /\ [][NextDecide]_vars

-----------------------------------------------------------------------------
(* AutoTuningAgent.act called directly, several times in a row, with the
   decisions reason can return in a cycle. *)

MaxActs == 2

CycleAnalyses ==
    { observe(encode_query(q, FALSE).value, r) : q \in QueryTexts, r \in ExplainReplies }

CycleDecisions ==
    { reason(x[1], x[2]).value :
        x \in { y \in CycleAnalyses \X OracleOutcomes : ~reason(y[1], y[2]).raised } }

InitAct ==
    /\ indexes \in InitialIndexes
    /\ pc = "Direct"
    /\ analysis_before = Null
    /\ Constructed

CallAct(d, tenant, check_fails, insert_fails) ==
    /\ pc = "Direct"
    /\ Len(act_history) < MaxActs
    /\ LET a == act(d, tenant, indexes, action_log, optimization_count,
                    check_fails, insert_fails)
       IN  /\ indexes' = a.indexes
           /\ create_count' = create_count + a.created
           /\ action_log' = a.action_log
           /\ optimization_count' = a.optimization_count
           /\ act_history' = Append(act_history,
                  [action |-> d.action, tenant_id |-> tenant,
                   result |-> a.result,
                   created |-> a.created,
                   check_failed |-> (a.checks > 0 /\ check_fails)])
    /\ UNCHANGED <<metric_log, total_improvement, pc, cycles, locals, workers, analyzer, oracle_reply>>

NextAct ==
    \/ \E d \in CycleDecisions, t \in Tenants, c \in BOOLEAN, f \in BOOLEAN :
          CallAct(d, t, c, f)
    \/ CleanIndexes

SpecAct == InitAct /\ [][NextAct]_vars

-----------------------------------------------------------------------------
(* Two run_optimization_cycle calls on one AutoTuningAgent that overlap from
   act onwards (two threads sharing the agent and its database), each with a
   create-index decision.  Nothing in act, create_index or the cycle takes a
   lock, so the calls interleave at every storage statement and between the
   read and the write of each `+=` on the agent's counters. *)

Workers == {1, 2}

(* the index name act passes to create_index for a create-index action *)
ActIndexName(action, tenant) ==
    IndexName(IF action = "create_hnsw_index" THEN "hnsw" ELSE "ivfflat", tenant)

(* the improvements a cycle measured at 12 ms or at 120 ms can compute *)
OverlapImprovements ==
    { improvement_percentage(b, a) : b \in {12, 120}, a \in {12, 120} }

InitOverlap ==
    /\ indexes \in InitialIndexes
    /\ pc = "Overlap"
    /\ analysis_before = Null
    /\ create_count = 0
    /\ metric_log = 0
    /\ action_log = <<>>
    /\ optimization_count = 0
    /\ total_improvement = Zero
    /\ cycles = 0
    /\ tenant_id = None
    /\ query_embedding = Null
    /\ decision = Null
    /\ action_result = Null
    /\ analysis_after = Null
    /\ improvement = Null
    /\ exception = None
    /\ oracle_calls = 0
    /\ oracle_failed = FALSE
    /\ index_checks = 0
    /\ inserts_fail = FALSE
    /\ act_history = <<>>
    /\ storage_failures = {}
    /\ analyzer = Null
    /\ oracle_reply = Null
    /\ workers \in [Workers -> { [pc |-> "check", action |-> a, tenant_id |-> t,
                                  index_name |-> ActIndexName(a, t),
                                  count_read |-> 0, improvement |-> Zero,
                                  total_read |-> Zero] :
                                    a \in CreateActions, t \in Tenants }]

OverlapFrame ==
    UNCHANGED <<metric_log, pc, cycles, locals, act_history, analyzer, oracle_reply>>

(* create_index: result = self.execute_query(check_query, (index_name,)) and the
   test of its count *)
CheckIndex(w) ==
    /\ workers[w].pc = "check"
    /\ workers' = [workers EXCEPT ![w].pc =
                       IF workers[w].index_name \in indexes THEN "log" ELSE "create"]
    /\ UNCHANGED <<indexes, create_count, action_log, stats>>
    /\ OverlapFrame

(* create_index past the test, the index seen absent: what the rest of the
   function does to the storage engine *)
CreateAbsent(w) ==
    /\ workers[w].pc = "create"
    /\ LET r == create_index(indexes \ {workers[w].index_name},
                             workers[w].index_name, FALSE)
       IN  /\ indexes' = indexes \cup r.indexes
           /\ create_count' = create_count + r.created
    /\ workers' = [workers EXCEPT ![w].pc = "log"]
    /\ UNCHANGED <<action_log, stats>>
    /\ OverlapFrame

(* act: self.db.log_agent_action({...}) *)
LogAction(w) ==
    /\ workers[w].pc = "log"
    /\ action_log' = log_agent_action(action_log, workers[w].action, FALSE)
    /\ workers' = [workers EXCEPT ![w].pc = "read_count"]
    /\ UNCHANGED <<indexes, create_count, stats>>
    /\ OverlapFrame

(* act: self.optimization_count += 1, the read of the attribute *)
ReadCount(w) ==
    /\ workers[w].pc = "read_count"
    /\ workers' = [workers EXCEPT ![w].pc = "write_count",
                                  ![w].count_read = optimization_count]
    /\ UNCHANGED <<storage, stats>>
    /\ OverlapFrame

(* act: self.optimization_count += 1, the write of the attribute *)
WriteCount(w) ==
    /\ workers[w].pc = "write_count"
    /\ optimization_count' = workers[w].count_read + 1
    /\ workers' = [workers EXCEPT ![w].pc = "verify"]
    /\ UNCHANGED <<storage, total_improvement>>
    /\ OverlapFrame

(* the VERIFY block up to the improvement *)
Measure(w, value) ==
    /\ workers[w].pc = "verify"
    /\ workers' = [workers EXCEPT ![w].pc = "read_total",
                                  ![w].improvement = value]
    /\ UNCHANGED <<storage, stats>>
    /\ OverlapFrame

(* self.total_improvement += improvement, the read of the attribute *)
ReadTotal(w) ==
    /\ workers[w].pc = "read_total"
    /\ workers' = [workers EXCEPT ![w].pc = "write_total",
                                  ![w].total_read = total_improvement]
    /\ UNCHANGED <<storage, stats>>
    /\ OverlapFrame

(* self.total_improvement += improvement, the write of the attribute *)
WriteTotal(w) ==
    /\ workers[w].pc = "write_total"
    /\ total_improvement' = RatAdd(workers[w].total_read, workers[w].improvement)
    /\ workers' = [workers EXCEPT ![w].pc = "done"]
    /\ UNCHANGED <<storage, optimization_count>>
    /\ OverlapFrame

NextOverlap ==
    \E w \in Workers :
        \/ CheckIndex(w)
        \/ CreateAbsent(w)
        \/ LogAction(w)
        \/ ReadCount(w)
        \/ WriteCount(w)
        \/ \E value \in OverlapImprovements : Measure(w, value)
        \/ ReadTotal(w)
        \/ WriteTotal(w)

SpecOverlap == InitOverlap /\ [][NextOverlap]_vars

-----------------------------------------------------------------------------
(* The cycle with an oracle that may also stay silent.  ollama.chat is called
   with a model, the messages and the sampling options, and with no timeout:
   the call returns when the reply arrives or the transport fails. *)

(* the timeout decide_optimization gives the chat call *)
OracleTimeout == None

(* self.optimizer.decide_optimization(analysis) when no reply ever comes: with
   a timeout the call raises and the except branch decides, without one the
   call never returns *)
OracleNeverReplies ==
    /\ pc = "Reasoning"
    /\ analysis_before.issues # <<>>
    /\ IF OracleTimeout = None
       THEN /\ pc' = "Blocked"
            /\ oracle_calls' = oracle_calls + 1
            /\ UNCHANGED <<storage, stats, cycles, tenant_id, query_embedding,
                           analysis_before, decision, action_result, analysis_after,
                           improvement, exception, oracle_failed, index_checks,
                           inserts_fail, storage_failures, act_history, workers, analyzer, oracle_reply>>
       ELSE Reason([kind |-> "fail"])

NextLive == Next \/ OracleNeverReplies

(* the controller takes its next step whenever it has one *)
SpecLive == Init /\ [][NextLive]_vars /\ WF_vars(NextLive)

-----------------------------------------------------------------------------
(* QueryAnalyzer on plan trees: _extract_scan_info on the root, then
   _detect_issues on its scan_info.  The trees have scans and other nodes at
   depth one to three, indexes with different names in different places, and
   row counts on both sides of the thresholds 500 and 1000. *)

PlanRows == {0, 5, 500, 501, 1000, 1001, 4500}

IndexNode(label, rows, name) == ScanNode(label, rows) @@ ("Index Name" :> name)

WithPlans(node, children) == node @@ ("Plans" :> children)

PlanLeaves ==
    { ScanNode("Seq Scan", n) : n \in PlanRows }
    \cup { IndexNode("Index Scan", n, name) : n \in {5, 1001}, name \in {"idx_a", "idx_b"} }
    \cup { IndexNode("Index Only Scan", 5, "idx_a"),
           IndexNode("Bitmap Index Scan", 5, "idx_b"),
           ScanNode("Bitmap Heap Scan", 1001),
           ScanNode("Index Scan", 5),
           ScanNode("Result", 5) }

PlanRoots ==
    { ScanNode("Limit", 5),
      ScanNode("Seq Scan", 100),
      ScanNode("Seq Scan", 500),
      IndexNode("Index Scan", 5, "idx_root"),
      ScanNode("Bitmap Heap Scan", 5),
      ScanNode("Bitmap Index Scan", 5) }

ChildLists ==
    { <<a>> : a \in PlanLeaves } \cup { <<a, b>> : a \in PlanLeaves, b \in PlanLeaves }

PlanTrees ==
    PlanLeaves
    \cup { WithPlans(r, c) : r \in PlanRoots, c \in ChildLists }
    \cup { WithPlans(ScanNode("Limit", 5), <<WithPlans(ScanNode("Nested Loop", 5), c)>>) :
             c \in ChildLists }
    \cup { WithPlans(ScanNode("Limit", 5),
                     <<a, WithPlans(ScanNode("Bitmap Heap Scan", 500), <<b>>)>>) :
             a \in PlanLeaves, b \in PlanLeaves }

InitAnalyze ==
    /\ indexes = {}
    /\ pc = "Planned"
    /\ analysis_before = Null
    /\ Fresh
    /\ workers = <<>>
    /\ oracle_reply = Null
    /\ analyzer \in { [explain_output |-> ("Plan" :> p) @@ ("Execution Time" :> t),
                        scan_info |-> Null, issues |-> Null] :
                         p \in PlanTrees, t \in {100, 101} }

AnalyzeFrame ==
    UNCHANGED <<storage, stats, cycles, locals, act_history, workers, oracle_reply>>

(* scan_info = self._extract_scan_info(plan) *)
ExtractScanInfo ==
    /\ pc = "Planned"
    /\ analyzer' = [analyzer EXCEPT
                       !.scan_info = extract_scan_info(analyzer.explain_output["Plan"], 0)]
    /\ pc' = "Scanned"
    /\ AnalyzeFrame

(* issues = self._detect_issues(plan, scan_info, execution_time) *)
DetectIssues ==
    /\ pc = "Scanned"
    /\ analyzer' = [analyzer EXCEPT
                       !.issues = detect_issues(analyzer.explain_output["Plan"],
                                                analyzer.scan_info,
                                                analyzer.explain_output["Execution Time"])]
    /\ pc' = "Detected"
    /\ AnalyzeFrame

NextAnalyze == ExtractScanInfo \/ DetectIssues

SpecAnalyze == InitAnalyze /\ [][NextAnalyze]_vars

-----------------------------------------------------------------------------
(* Properties *)

\* C1: after act returns for a create-index decision with success = true (the
\* cycle is then about to verify), the index idx_embedding_<index_type>_<tenant_id>
\* exists in the storage engine.
C1_SuccessImpliesIndexExists ==
    pc = "Verifying" => IndexName(decision.index_type, tenant_id) \in indexes

\* C2: two act calls in a row with the same create-index decision and the same
\* tenant issue at most one index creation between them, and the second call,
\* its existence query answered, returns with error None.
C2_ActIdempotent ==
    \A i \in 1..(Len(act_history) - 1) :
        LET first == act_history[i]
            second == act_history[i + 1]
        IN  ( /\ first.action \in CreateActions
              /\ second.action = first.action
              /\ second.tenant_id = first.tenant_id
              /\ ~second.check_failed )
            => /\ first.created + second.created <= 1
               /\ second.result.error = None

C2_Witness ==
    /\ Len(act_history) = 2
    /\ act_history[1].action = "create_ivfflat_index"
    /\ act_history[2].action = "create_ivfflat_index"
    /\ act_history[1].tenant_id = act_history[2].tenant_id
    /\ act_history[1].result.success
    /\ act_history[2].result.success
    /\ act_history[2].result.error = None

\* C3: a cycle ends with an exception instead of a result only when the
\* embedding provider failed.
C3_OnlyEmbeddingFailureRaises ==
    pc = "Raised" => exception = "EmbeddingError"

\* C4: when the oracle call of a cycle failed, reason does not raise: the
\* fallback ran and a valid Decision (an action of the four, with reasoning and
\* confidence) was returned.
C4_OracleFailureYieldsDecision ==
    oracle_failed =>
        /\ pc # "Raised"
        /\ decision # Null
        /\ decision.action \in Actions
        /\ {"reasoning", "confidence"} \subseteq DOMAIN decision

\* C5: in a cycle result analysis_after and improvement_percentage are non-null
\* only if action_result.success is true and the action is an index creation;
\* Verifying is entered only after a successful create-index act, and every
\* other cycle ends with both fields null.
C5_VerifyOnlyAfterSuccessfulCreate ==
    /\ pc = "Verifying" =>
          action_result.success /\ decision.action \in CreateActions
    /\ pc = "Done" =>
          /\ (analysis_after # Null \/ improvement # Null) =>
                action_result.success /\ decision.action \in CreateActions
          /\ ~(action_result.success /\ decision.action \in CreateActions) =>
                analysis_after = Null /\ improvement = Null

C5_Witness ==
    /\ pc = "Done"
    /\ analysis_after # Null
    /\ improvement # Null
    /\ action_result.success
    /\ decision.action = "create_hnsw_index"

(* act is about to run with a create-index decision whose index exists *)
C6_Case ==
    /\ pc = "Acting"
    /\ decision.action \in CreateActions
    /\ IndexName(decision.index_type, tenant_id) \in indexes

\* C6 as stated: when act runs with a create-index decision whose index already
\* exists (the existence query answered), creation is skipped, success = true
\* with sql_executed null, the cycle does not verify, and neither
\* optimization_count nor total_improvement changes.
C6_ExistingIndexNoStatementNoVerify ==
    [][ (C6_Case /\ action_result'.error = None) =>
            /\ action_result'.success
            /\ action_result'.sql_executed = None
            /\ UNCHANGED <<indexes, create_count>>
            /\ pc' = "Done"
            /\ analysis_after' = Null
            /\ improvement' = Null
            /\ UNCHANGED <<optimization_count, total_improvement>> ]_vars

\* C6 as amended: when act runs with a create-index decision whose index already
\* exists (the existence query answered), creation is skipped and success = true,
\* but sql_executed is the generated CREATE INDEX statement, optimization_count is
\* incremented and the cycle enters Verifying; a Verifying phase that completes
\* adds its improvement to total_improvement.
C6_ExistingIndexSkipsCreationOnly ==
    /\ [][ (C6_Case /\ action_result'.error = None) =>
              /\ action_result'.success
              /\ UNCHANGED <<indexes, create_count>>
              /\ action_result'.sql_executed # None
              /\ action_result'.sql_executed = generate_sql(decision, tenant_id)
              /\ pc' = "Verifying"
              /\ optimization_count' = optimization_count + 1
              /\ total_improvement' = total_improvement ]_vars
    /\ [][ ( /\ pc = "Verifying"
             /\ IndexName(decision.index_type, tenant_id) \in indexes
             /\ pc' = "Done" ) =>
              /\ analysis_after' # Null
              /\ improvement' # Null
              /\ total_improvement' = RatAdd(total_improvement, improvement') ]_vars

C6_Witness ==
    /\ pc = "Done"
    /\ decision.action \in CreateActions
    /\ IndexName(decision.index_type, tenant_id) \in indexes
    /\ action_result.success
    /\ create_count = 0
    /\ optimization_count = 1
    /\ analysis_after # Null

\* C7: a cycle whose first observation has execution time 180 ms, no index used
\* and a sequential scan, with the oracle unavailable, ends with the Decision
\* create_hnsw_index of confidence high, success = true, the Verifying phase run
\* and the improvement added to total_improvement.
C7_FirstCycleOracleDown ==
    ( /\ pc \in {"Done", "Raised"}
      /\ oracle_failed
      /\ analysis_before.execution_time_ms = 180
      /\ ~analysis_before.index_used
      /\ analysis_before.scan_type = "Seq Scan" )
    => /\ pc = "Done"
       /\ decision.action = "create_hnsw_index"
       /\ decision.confidence = "high"
       /\ action_result.success
       /\ analysis_after # Null
       /\ improvement # Null

(* the fallback rule, as the claim words it *)
C8_Rule(execution_time_ms, index_used, rows_scanned) ==
    IF execution_time_ms > 100 /\ ~index_used
    THEN IF rows_scanned < 100000 THEN "create_hnsw_index" ELSE "create_ivfflat_index"
    ELSE "no_action"

\* C8: when the oracle call fails, the Decision is the rule's function of
\* (execution time, index used, rows scanned), with confidence low: (150 ms, no
\* index, 50000 rows) gives create_hnsw_index and (150 ms, no index, 200000
\* rows) gives create_ivfflat_index.
C8_FallbackRule ==
    (pc \in {"Decided", "Raised"} /\ oracle_failed) =>
        /\ pc = "Decided"
        /\ decision.action = C8_Rule(analysis_before.execution_time_ms,
                                     analysis_before.index_used,
                                     analysis_before.rows_scanned)
        /\ decision.confidence = "low"
        /\ ( /\ analysis_before.execution_time_ms = 150
             /\ ~analysis_before.index_used
             /\ analysis_before.rows_scanned = 50000 )
           => decision.action = "create_hnsw_index"
        /\ ( /\ analysis_before.execution_time_ms = 150
             /\ ~analysis_before.index_used
             /\ analysis_before.rows_scanned = 200000 )
           => decision.action = "create_ivfflat_index"

C8_Witness ==
    /\ pc = "Decided"
    /\ oracle_failed
    /\ analysis_before.execution_time_ms = 150
    /\ ~analysis_before.index_used
    /\ analysis_before.rows_scanned = 200000
    /\ decision.action = "create_ivfflat_index"
    /\ decision.confidence = "low"

(* confidence by execution time, as the claim words it *)
C9_ByTime(execution_time_ms) ==
    IF execution_time_ms > 200 THEN "high"
    ELSE IF execution_time_ms > 100 THEN "medium"
    ELSE "low"

\* C9 as stated: every Decision of the decision engine, from the oracle reply or
\* from the fallback, has confidence high iff the execution time exceeds 200 ms,
\* medium iff it is in (100, 200], and low otherwise.
C9_ConfidenceByTimeAlways ==
    pc = "Decided" =>
        decision.confidence = C9_ByTime(analysis_before.execution_time_ms)

\* C9 as amended: a Decision parsed from an oracle reply has confidence high iff
\* the execution time exceeds 200 ms, medium iff it is in (100, 200], and low
\* otherwise, whatever its action; a fallback Decision has confidence low
\* whatever the execution time.
C9_ConfidenceByTimeForReplies ==
    pc = "Decided" =>
        decision.confidence =
            IF oracle_failed THEN "low"
            ELSE C9_ByTime(analysis_before.execution_time_ms)

C9_Witness ==
    /\ pc = "Decided"
    /\ ~oracle_failed
    /\ analysis_before.execution_time_ms = 200
    /\ decision.confidence = "medium"
    /\ decision.action = "no_action"

(* the first observation of the running cycle found no issue *)
C10_Case == analysis_before # Null /\ analysis_before.issues = <<>>

\* C10: when the Analysis has no issue, reason returns no_action without calling
\* the oracle; the cycle makes no index-existence check, creates no index,
\* appends no action-log record, changes neither optimization_count nor
\* total_improvement, and ends with analysis_after null.
C10_NoIssueNoEffect ==
    /\ []( (C10_Case /\ pc \in {"Acting", "Verifying", "Done", "Raised"}) =>
              /\ pc \in {"Acting", "Done"}
              /\ decision.action = "no_action"
              /\ oracle_calls = 0
              /\ index_checks = 0
              /\ analysis_after = Null
              /\ improvement = Null )
    /\ [][ (C10_Case /\ pc \in {"Reasoning", "Acting"}) =>
              UNCHANGED <<indexes, create_count, action_log, optimization_count,
                          total_improvement>> ]_vars

C10_Witness ==
    /\ pc = "Done"
    /\ analysis_before.issues = <<>>
    /\ decision.action = "no_action"
    /\ action_result.success
    /\ oracle_calls = 0

\* C11: every Decision of a cycle (no_action of reason without a call, parsed
\* oracle reply, fallback) has index_type set if and only if its action is
\* create_hnsw_index or create_ivfflat_index, and then it is hnsw for the first
\* and ivfflat for the second.
C11_IndexTypeIffCreate ==
    decision # Null =>
        LET index_type == Get(decision, "index_type", None)
        IN  /\ (index_type # None) <=> (decision.action \in CreateActions)
            /\ decision.action = "create_hnsw_index" => index_type = "hnsw"
            /\ decision.action = "create_ivfflat_index" => index_type = "ivfflat"

C11_Witness ==
    /\ pc = "Acting"
    /\ decision.action = "create_ivfflat_index"
    /\ decision.index_type = "ivfflat"

(* act runs in the cycle with a create-index decision *)
C12_Case == pc = "Acting" /\ decision.action \in CreateActions

\* C12 as stated: whichever storage operation of act fails (the index-existence
\* query, the append of the action-log record), act returns an ActionResult with
\* success = false and an error, and the cycle goes to Done without Verifying
\* and without incrementing optimization_count.
C12_AnyActFailureReported ==
    [][ (C12_Case /\ storage_failures' # {}) =>
            /\ pc' = "Done"
            /\ ~action_result'.success
            /\ action_result'.error # None
            /\ optimization_count' = optimization_count ]_vars

\* C12 as amended: no failure of act's storage operations leaves act.  A failure
\* of the index-existence query yields success = false with an error, and the
\* cycle goes to Done without Verifying, without an action-log record and
\* without incrementing optimization_count.  A failure of the action-log INSERT
\* is rolled back inside log_agent_action and is not reported: success stays
\* true with error None, optimization_count is incremented and the cycle verifies.
C12_ActFailureHandling ==
    [][ C12_Case =>
            /\ pc' \in {"Acting", "Verifying", "Done"}
            /\ "index_check" \in storage_failures' =>
                  /\ pc' = "Done"
                  /\ ~action_result'.success
                  /\ action_result'.error # None
                  /\ optimization_count' = optimization_count
                  /\ action_log' = action_log
            /\ storage_failures' = {"action_log"} =>
                  /\ pc' = "Verifying"
                  /\ action_result'.success
                  /\ action_result'.error = None
                  /\ optimization_count' = optimization_count + 1
                  /\ action_log' = action_log ]_vars

C12_Witness ==
    /\ pc = "Done"
    /\ decision.action \in CreateActions
    /\ storage_failures = {"index_check"}
    /\ ~action_result.success
    /\ action_result.error # None
    /\ optimization_count = 0
    /\ analysis_after = Null

\* C13: a storage failure during observation (EXPLAIN raising, an empty result,
\* an empty plan) does not abort the cycle: the Analysis is the degraded one
\* (scan type ERROR, no index used, execution time 100 ms), observe tags it
\* high_latency and missing_index, and the cycle goes on to Reasoning, where the
\* decision engine is consulted.
C13_DegradedObservation ==
    /\ [](\A reply \in ExplainReplies : \A q \in QueryTexts :
             reply.kind # "data" =>
                LET analysis == observe(encode_query(q, FALSE).value, reply)
                IN  /\ analysis.scan_type = "ERROR"
                    /\ ~analysis.index_used
                    /\ analysis.execution_time_ms = 100
                    /\ analysis.issues = <<"high_latency", "missing_index">>)
    /\ []((analysis_before # Null /\ analysis_before.scan_type = "ERROR") =>
             /\ analysis_before.execution_time_ms = 100
             /\ analysis_before.issues = <<"high_latency", "missing_index">>
             /\ pc # "Raised"
             /\ pc \in {"Acting", "Verifying", "Done"} => oracle_calls = 1)
    /\ [][pc = "Observing" => pc' \in {"Observing", "Reasoning"}]_vars

C13_Witness ==
    /\ pc = "Acting"
    /\ analysis_before.scan_type = "ERROR"
    /\ "error" \in DOMAIN analysis_before
    /\ analysis_before.issues = <<"high_latency", "missing_index">>
    /\ oracle_calls = 1

\* C14: when the embedding provider fails at the start of a cycle, the failure
\* leaves run_optimization_cycle and the cycle has no effect: no observation
\* (an observation is made only with an embedding), no metric-log or action-log
\* record, no oracle call, no index check or creation, optimization_count and
\* total_improvement unchanged.
C14_EmbeddingFailureNoEffect ==
    /\ []((pc = "Raised" /\ exception = "EmbeddingError") =>
             /\ query_embedding = Null
             /\ analysis_before = Null
             /\ decision = Null
             /\ action_result = Null
             /\ oracle_calls = 0
             /\ index_checks = 0)
    /\ [][ (pc \in {"Idle", "Done"} /\ pc' = "Raised") =>
              /\ exception' = "EmbeddingError"
              /\ UNCHANGED <<indexes, create_count, metric_log, action_log,
                             optimization_count, total_improvement>> ]_vars
    /\ [][ (pc \in {"Idle", "Done"} /\ pc' = "Observing") =>
              query_embedding' # Null ]_vars

C14_Witness ==
    /\ pc = "Raised"
    /\ exception = "EmbeddingError"
    /\ cycles = 1
    /\ metric_log = 0
    /\ action_log = <<>>

\* C15: optimization_count starts at 0, never decreases, and every act call adds
\* one to it exactly when its decision is a create-index action and its result
\* has success = true; a no_action or optimize_query decision, a failed action
\* and whatever else happens between the calls leave it as it is.
C15_CountsSuccessfulCreates ==
    /\ optimization_count = 0
    /\ [][ /\ optimization_count' >= optimization_count
           /\ IF Len(act_history') = Len(act_history) + 1
              THEN LET call == act_history'[Len(act_history')]
                   IN  optimization_count' =
                          optimization_count
                          + (IF call.action \in CreateActions /\ call.result.success
                             THEN 1 ELSE 0)
              ELSE optimization_count' = optimization_count ]_vars

C15_Witness ==
    /\ Len(act_history) = 2
    /\ act_history[1].action = "create_hnsw_index"
    /\ act_history[1].result.success
    /\ act_history[2].action = "optimize_query"
    /\ ~act_history[2].result.success
    /\ optimization_count = 1

\* C16: the improvement of a completed cycle with both analyses is
\* (time_before - time_after) / time_before * 100 over the execution times of
\* that cycle's two analyses (120 ms and 12 ms give 90, a slower second
\* measurement gives a negative value), and total_improvement, 0 at the start,
\* grows by exactly that improvement when such a cycle completes and by nothing
\* otherwise: it is the sum of the cycles' non-null improvements.
C16_ImprovementAndTotal ==
    /\ total_improvement = Zero
    /\ []((pc = "Done" /\ analysis_after # Null) =>
             /\ improvement # Null
             /\ improvement[2] > 0
             /\ improvement[1] * analysis_before.execution_time_ms
                  = (analysis_before.execution_time_ms - analysis_after.execution_time_ms)
                    * 100 * improvement[2]
             /\ ( /\ analysis_before.execution_time_ms = 120
                  /\ analysis_after.execution_time_ms = 12 ) => improvement = <<90, 1>>
             /\ analysis_after.execution_time_ms > analysis_before.execution_time_ms
                  => improvement[1] < 0)
    /\ []((pc = "Done" /\ analysis_after = Null) => improvement = Null)
    /\ [][ IF pc = "Verifying" /\ pc' = "Done"
           THEN total_improvement'[1] * total_improvement[2] * improvement'[2]
                   = (total_improvement[1] * improvement'[2]
                      + improvement'[1] * total_improvement[2])
                     * total_improvement'[2]
           ELSE total_improvement' = total_improvement ]_vars

C16_Witness ==
    /\ pc = "Done"
    /\ cycles = 2
    /\ analysis_after # Null
    /\ analysis_before.execution_time_ms = 12
    /\ analysis_after.execution_time_ms = 120
    /\ improvement = <<-900, 1>>
    /\ total_improvement = <<-810, 1>>

\* C17: create_index on a name that already exists changes nothing in the
\* storage engine: the index is neither dropped nor created again (no creation
\* statement is executed) and the set of indexes is the same after the call.
C17_ExistingIndexUntouched ==
    [][ ( /\ Len(act_history') = Len(act_history) + 1
          /\ LET call == act_history'[Len(act_history')]
             IN  /\ call.action \in CreateActions
                 /\ ActIndexName(call.action, call.tenant_id) \in indexes )
        => /\ indexes' = indexes
           /\ create_count' = create_count
           /\ act_history'[Len(act_history')].created = 0 ]_vars

C17_Witness ==
    /\ Len(act_history) = 1
    /\ act_history[1].action = "create_hnsw_index"
    /\ act_history[1].tenant_id = "wikipedia"
    /\ ~act_history[1].check_failed
    /\ act_history[1].result.success
    /\ indexes = {"idx_embedding_hnsw_wikipedia"}
    /\ create_count = 0

\* C18: when two cycles overlap on the same scope with the same create-index
\* decision, their create-index attempts exclude each other: they are never
\* both past the index-existence check with the index seen absent, on the way
\* to create it, and at most one creation is issued for the name.
C18_CreateAttemptsExclusive ==
    /\ create_count <= 1
    /\ \A v \in DOMAIN workers : \A w \in DOMAIN workers :
          ( /\ v # w
            /\ workers[v].action = workers[w].action
            /\ workers[v].tenant_id = workers[w].tenant_id )
          => ~(workers[v].pc = "create" /\ workers[w].pc = "create")

\* C20: when two cycles of one controller overlap, no update of the running
\* statistics is lost: once both are done optimization_count is the number of
\* their increments and total_improvement the sum of their improvements.
C20_NoLostUpdate ==
    (workers # <<>> /\ \A w \in DOMAIN workers : workers[w].pc = "done") =>
        /\ optimization_count = Cardinality(DOMAIN workers)
        /\ total_improvement = RatAdd(workers[1].improvement, workers[2].improvement)

\* C19: when the oracle never replies to the call, the cycle does not wait
\* forever: the call times out, the fallback decides, and the cycle reaches
\* Done.
C19_SilentOracleReachesDone ==
    (pc = "Blocked") ~> (pc = "Done")

(* the nodes of a plan tree in depth-first pre-order *)
RECURSIVE PreOrder(_)
RECURSIVE PreOrderAll(_, _)
PreOrder(plan) ==
    <<plan>> \o (IF "Plans" \in DOMAIN plan THEN PreOrderAll(plan["Plans"], 1) ELSE <<>>)

PreOrderAll(children, i) ==
    IF i > Len(children) THEN <<>>
    ELSE PreOrder(children[i]) \o PreOrderAll(children, i + 1)

HasMarker(node, marker) == marker \in Markers(Get(node, "Node Type", ""))

(* the sum of 'Actual Rows' over the scan nodes among nodes[i..] *)
RECURSIVE SumScanRows(_, _)
SumScanRows(nodes, i) ==
    IF i > Len(nodes) THEN 0
    ELSE (IF HasMarker(nodes[i], "Scan") THEN Get(nodes[i], "Actual Rows", 0) ELSE 0)
         + SumScanRows(nodes, i + 1)

\* C21: the rows_scanned that _extract_scan_info returns for the root of a plan
\* tree is the sum of 'Actual Rows' over every node of the tree, at any depth,
\* whose 'Node Type' contains 'Scan', each counted once.
C21_RowsScannedIsSum ==
    pc \in {"Scanned", "Detected"} =>
        analyzer.scan_info.rows_scanned
            = SumScanRows(PreOrder(analyzer.explain_output["Plan"]), 1)

C21_Witness ==
    /\ pc = "Scanned"
    /\ Len(PreOrder(analyzer.explain_output["Plan"])) = 4
    /\ analyzer.explain_output["Plan"]["Node Type"] = "Limit"
    /\ analyzer.scan_info.rows_scanned = 6001

(* the primary kind of a root label, as the claim lists it *)
C22_Kind(label) ==
    CASE label = "Seq Scan"         -> "sequential"
      [] label = "Index Scan"       -> "index"
      [] label = "Index Only Scan"  -> "index_only"
      [] label = "Bitmap Heap Scan" -> "bitmap"
      [] OTHER                      -> "unknown"

\* C22: the primary scan kind is decided by the root alone: unknown when the
\* root is not a scan, whatever its descendants are, and the mapped kind of the
\* root's label when it is (unknown for a scan label without a mapping); a tree
\* without scan nodes has primary kind unknown and rows_scanned 0.
C22_PrimaryByRoot ==
    pc \in {"Scanned", "Detected"} =>
        LET plan == analyzer.explain_output["Plan"]
            nodes == PreOrder(plan)
        IN  /\ analyzer.scan_info.primary_scan =
                  IF HasMarker(plan, "Scan") THEN C22_Kind(plan["Node Type"])
                  ELSE "unknown"
            /\ (\A i \in DOMAIN nodes : ~HasMarker(nodes[i], "Scan")) =>
                  /\ analyzer.scan_info.primary_scan = "unknown"
                  /\ analyzer.scan_info.rows_scanned = 0

C22_Witness ==
    /\ pc = "Scanned"
    /\ analyzer.explain_output["Plan"]["Node Type"] = "Limit"
    /\ analyzer.scan_info.scans_found = <<"Seq Scan", "Index Scan">>
    /\ analyzer.scan_info.primary_scan = "unknown"

(* the issues of a scan summary, an execution time and a rows-returned value,
   rule by rule as the claim states them *)
C23_Rules(scan_info, execution_time, rows_returned) ==
    { issue \in { "SEQUENTIAL_SCAN_LARGE_DATASET", "SEQUENTIAL_SCAN_SMALL_DATASET",
                  "HIGH_EXECUTION_TIME", "NO_INDEX_AVAILABLE", "LOW_SELECTIVITY" } :
        \/ /\ issue = "SEQUENTIAL_SCAN_LARGE_DATASET"
           /\ scan_info.primary_scan = "sequential"
           /\ scan_info.rows_scanned > 1000
        \/ /\ issue = "SEQUENTIAL_SCAN_SMALL_DATASET"
           /\ scan_info.primary_scan = "sequential"
           /\ scan_info.rows_scanned <= 1000
        \/ /\ issue = "HIGH_EXECUTION_TIME"
           /\ execution_time > 100
        \/ /\ issue = "NO_INDEX_AVAILABLE"
           /\ ~scan_info.index_used
           /\ scan_info.rows_scanned > 500
        \/ /\ issue = "LOW_SELECTIVITY"
           /\ scan_info.rows_scanned > 1000
           /\ rows_returned * 10 < scan_info.rows_scanned }

\* C23: the issue list of _detect_issues holds, each once, exactly the issues
\* of the independent rules: SEQUENTIAL_SCAN_LARGE_DATASET iff the primary kind
\* is sequential and rows_scanned > 1000, SEQUENTIAL_SCAN_SMALL_DATASET iff
\* sequential and rows_scanned <= 1000 (never both), HIGH_EXECUTION_TIME iff the
\* execution time exceeds 100, NO_INDEX_AVAILABLE iff no index is used and
\* rows_scanned > 500, LOW_SELECTIVITY iff rows_scanned > 1000 and rows returned
\* over rows scanned is below 0.1.
C23_IssuesByRules ==
    pc = "Detected" =>
        LET issues == analyzer.issues
            found == { issues[i] : i \in DOMAIN issues }
        IN  /\ found = C23_Rules(analyzer.scan_info,
                                 analyzer.explain_output["Execution Time"],
                                 Get(analyzer.explain_output["Plan"], "Actual Rows", 0))
            /\ Cardinality(found) = Len(issues)
            /\ ~({"SEQUENTIAL_SCAN_LARGE_DATASET", "SEQUENTIAL_SCAN_SMALL_DATASET"}
                    \subseteq found)

C23_Witness ==
    /\ pc = "Detected"
    /\ analyzer.scan_info.rows_scanned = 5005
    /\ analyzer.issues = <<"SEQUENTIAL_SCAN_LARGE_DATASET", "HIGH_EXECUTION_TIME",
                           "NO_INDEX_AVAILABLE", "LOW_SELECTIVITY">>


(* C24: a parsed reply containing 'hnsw' gives create_hnsw_index, one
   containing 'ivfflat' (and no 'hnsw') gives create_ivfflat_index, one with
   none of the recognised tokens gives no_action, and a reply whose ACTION
   line says no_action or create_ivfflat_index keeps that action whatever
   other words it contains. *)
C24_ActionLineKept ==
    (pc = "Decided" /\ oracle_reply # Null) =>
        /\ InReply("hnsw", oracle_reply) => decision.action = "create_hnsw_index"
        /\ (InReply("ivfflat", oracle_reply) /\ ~InReply("hnsw", oracle_reply))
               => decision.action = "create_ivfflat_index"
        /\ (\A t \in {"create_hnsw_index", "hnsw", "create_ivfflat_index",
                      "ivfflat", "optimize_query"} : ~InReply(t, oracle_reply))
               => decision.action = "no_action"
        /\ oracle_reply.action_line \in {"no_action", "create_ivfflat_index"}
               => decision.action = oracle_reply.action_line


(* the CREATE INDEX statement that names the given index *)
C25_Statement(index_name, index_type) ==
    "CREATE INDEX IF NOT EXISTS " \o index_name
    \o " ON rag_system.documents USING " \o index_type
    \o " (embedding vector_cosine_ops)"
    \o (IF index_type = "hnsw" THEN " WITH (m = 16, ef_construction = 64);"
        ELSE " WITH (lists = 100);")

(* C25: generate_sql depends on the action and the tenant only, and for every
   create-index decision of a cycle the statement act executed names the
   index idx_embedding_<index_type>_<tenant_id>, the name act hands to
   create_index. *)
C25_StatementNamesIndex ==
    /\ \A d1 \in CycleDecisions, d2 \in CycleDecisions, t \in Tenants :
           d1.action = d2.action => generate_sql(d1, t) = generate_sql(d2, t)
    /\ ( /\ pc \in {"Verifying", "Done"}
         /\ action_result # Null
         /\ IsCreateIndex(decision.action) )
       => action_result.sql_executed =
              C25_Statement(IndexName(decision.index_type, tenant_id),
                            decision.index_type)

C25_Witness ==
    /\ pc \in {"Verifying", "Done"}
    /\ decision.action = "create_ivfflat_index"
    /\ tenant_id = "wikipedia"
    /\ action_result.sql_executed =
           C25_Statement("idx_embedding_ivfflat_wikipedia", "ivfflat")


(* the steps run_optimization_cycle can take from one phase to the next; an
   exception leaves the cycle from the phase that raised it *)
C26_Order ==
    { <<"Idle", "Observing">>, <<"Done", "Observing">>,
      <<"Observing", "Reasoning">>, <<"Reasoning", "Acting">>,
      <<"Acting", "Verifying">>, <<"Acting", "Done">>, <<"Verifying", "Done">>,
      <<"Idle", "Raised">>, <<"Done", "Raised">>, <<"Reasoning", "Raised">>,
      <<"Verifying", "Raised">> }

C26_InCycle == pc \in {"Observing", "Reasoning", "Acting", "Verifying"}

(* C26: within a cycle the phases follow Idle, Observing, Reasoning, Acting,
   optional Verifying, Done; the embedding exists before the first
   observation and stays the same until the cycle ends; the oracle is called
   at most once and only after the first observation; the index check
   happens at most once and only after a decision exists; the second
   observation happens only after act returned. *)
C26_PhaseOrder ==
    /\ [] ( /\ C26_InCycle => query_embedding # Null
            /\ analysis_before # Null => query_embedding # Null
            /\ oracle_calls <= 1
            /\ oracle_calls > 0 => analysis_before # Null
            /\ index_checks <= 1
            /\ index_checks > 0 => decision # Null
            /\ decision # Null => analysis_before # Null
            /\ action_result # Null => decision # Null
            /\ analysis_after # Null => action_result # Null )
    /\ [][ /\ pc' # pc => <<pc, pc'>> \in C26_Order
           /\ C26_InCycle => query_embedding' = query_embedding
           /\ oracle_calls' # oracle_calls => pc \in {"Reasoning", "Idle", "Done"}
           /\ index_checks' # index_checks => pc \in {"Acting", "Idle", "Done"}
           /\ (analysis_after' # analysis_after /\ analysis_after' # Null)
                  => pc = "Verifying" ]_vars

C26_Witness ==
    /\ pc = "Done"
    /\ oracle_calls = 1
    /\ index_checks = 1
    /\ analysis_after # Null
    /\ query_embedding # Null


(* the issues the two rules of observe give for an analysis *)
C27_Issues(analysis) ==
    { i \in {"high_latency", "missing_index"} :
        \/ i = "high_latency" /\ analysis.execution_time_ms > 20
        \/ i = "missing_index" /\ ~analysis.index_used }

C27_Exact(analysis) ==
    /\ { analysis.issues[i] : i \in 1..Len(analysis.issues) } = C27_Issues(analysis)
    /\ Len(analysis.issues) = Cardinality(C27_Issues(analysis))

(* C27: the issues of an observed analysis are high_latency exactly when
   execution_time_ms > 20 and missing_index exactly when no index was used,
   and nothing else; the decision engine is consulted in a cycle exactly
   when execution_time_ms > 20 or no index was used. *)
C27_IssuesAndConsultation ==
    /\ [] ( /\ analysis_before # Null => C27_Exact(analysis_before)
            /\ analysis_after # Null => C27_Exact(analysis_after) )
    /\ [][ (pc = "Reasoning" /\ pc' # pc)
           => ( oracle_calls' = 1
                <=> ( \/ analysis_before.execution_time_ms > 20
                      \/ ~analysis_before.index_used ) ) ]_vars

C27_Witness ==
    /\ pc = "Done"
    /\ analysis_before.execution_time_ms = 20
    /\ analysis_before.index_used
    /\ analysis_before.issues = <<>>
    /\ oracle_calls = 0
    /\ decision.action = "no_action"


(* the positions, in pre-order, of the scan nodes whose label contains 'Index' *)
C28_IndexNodes(nodes) ==
    { i \in DOMAIN nodes : HasMarker(nodes[i], "Scan") /\ HasMarker(nodes[i], "Index") }

C28_First(positions) == CHOOSE i \in positions : \A j \in positions : i <= j

(* C28: index_used is true exactly when some scan node of the tree has a
   label containing 'Index', and index_name is the 'Index Name' of the first
   such node in depth-first pre-order; a later index node never replaces it. *)
C28_FirstIndexWins ==
    pc \in {"Scanned", "Detected"} =>
        LET nodes == PreOrder(analyzer.explain_output["Plan"])
            found == C28_IndexNodes(nodes)
        IN  /\ analyzer.scan_info.index_used = (found # {})
            /\ analyzer.scan_info.index_name =
                  IF found = {} THEN None
                  ELSE Get(nodes[C28_First(found)], "Index Name", None)

C28_Witness ==
    /\ pc = "Scanned"
    /\ LET plan == analyzer.explain_output["Plan"]
       IN  /\ plan["Node Type"] = "Limit"
           /\ "Plans" \in DOMAIN plan
           /\ Len(plan["Plans"]) = 2
           /\ Get(plan["Plans"][1], "Index Name", None) = "idx_b"
           /\ Get(plan["Plans"][2], "Index Name", None) = "idx_a"
    /\ analyzer.scan_info.index_used
    /\ analyzer.scan_info.index_name = "idx_b"


(* C29: act with a no_action decision returns success with no statement and
   touches nothing: the indexes, the count of created indexes, the action log
   and optimization_count stay as they were, and the storage engine is not
   queried. *)
C29_NoActionTouchesNothing ==
    [][ ( /\ Len(act_history') = Len(act_history) + 1
          /\ act_history'[Len(act_history')].action = "no_action" )
        => /\ act_history'[Len(act_history')].result
                  = [success |-> TRUE, message |-> "No action taken"]
           /\ ~act_history'[Len(act_history')].check_failed
           /\ act_history'[Len(act_history')].created = 0
           /\ indexes' = indexes
           /\ create_count' = create_count
           /\ action_log' = action_log
           /\ optimization_count' = optimization_count ]_vars

C29_Witness ==
    /\ Len(act_history) = 2
    /\ act_history[1].action = "create_hnsw_index"
    /\ act_history[1].result.success
    /\ act_history[2].action = "no_action"
    /\ act_history[2].result = [success |-> TRUE, message |-> "No action taken"]
    /\ optimization_count = 1
    /\ Len(action_log) = 1


(* C30 as stated, on the calls where nothing is to be created: act appends
   no action-log record when the index already existed (creation skipped) or
   when the creation step failed. *)
C30_NoLogWhenIndexExisted ==
    [][ ( /\ pc = "Acting"
          /\ decision.action \in CreateActions
          /\ \/ IndexName(decision.index_type, tenant_id) \in indexes
             \/ "index_check" \in storage_failures' )
        => action_log' = action_log ]_vars

(* C30 as amended: act appends exactly one action-log record whenever
   create_index returned without raising and the INSERT went through, whether
   the index was absent or already existed; it appends none when the
   existence query raised, when the INSERT failed, or when the decision has
   no statement. *)
C30_LogWhenCreateIndexReturns ==
    [][ pc = "Acting"
        => action_log' =
               IF /\ decision.action \in CreateActions
                  /\ "index_check" \notin storage_failures'
                  /\ ~inserts_fail
               THEN Append(action_log, decision.action)
               ELSE action_log ]_vars

C30_Witness ==
    /\ pc \in {"Verifying", "Done"}
    /\ decision.action = "create_hnsw_index"
    /\ IndexName(decision.index_type, tenant_id) \in indexes
    /\ create_count = 0
    /\ action_result.success
    /\ action_log = <<"create_hnsw_index">>


(* C31: a failed INSERT of a metric or action record is swallowed: observe
   still returns the analysis of the EXPLAIN reply and goes on to Reasoning,
   act returns the result it returns with logging working, and neither step
   ends the cycle with an exception; the failed INSERT leaves no record.
   With logging working every observe appends exactly one metric record, so
   a first cycle has one metric record without Verifying and two with it. *)
C31_LoggingBestEffort ==
    /\ [] ( (cycles = 1 /\ pc = "Done" /\ ~inserts_fail)
            => metric_log = IF analysis_after # Null THEN 2 ELSE 1 )
    /\ [][ /\ pc = "Observing"
              => /\ pc' = "Reasoning"
                 /\ \E r \in ExplainReplies :
                        analysis_before' = observe(query_embedding, r)
                 /\ metric_log' = IF inserts_fail THEN metric_log ELSE metric_log + 1
           /\ pc = "Verifying"
              => /\ \E r \in ExplainReplies :
                        analysis_after' = observe(query_embedding, r)
                 /\ metric_log' = IF inserts_fail THEN metric_log ELSE metric_log + 1
           /\ pc \notin {"Observing", "Verifying"} => metric_log' = metric_log
           /\ pc = "Acting"
              => /\ pc' \in {"Verifying", "Done"}
                 /\ \E c \in BOOLEAN :
                        action_result' =
                            act(decision, tenant_id, indexes, action_log,
                                optimization_count, c, FALSE).result
                 /\ inserts_fail => action_log' = action_log ]_vars

C31_Witness ==
    /\ pc = "Done"
    /\ inserts_fail
    /\ "action_log" \in storage_failures
    /\ analysis_after # Null
    /\ action_result.success
    /\ action_result.error = None
    /\ metric_log = 0
    /\ action_log = <<>>


(* C32: act with an optimize_query decision returns success = false with
   error 'No SQL generated' and no statement, queries and changes nothing in
   the storage engine, appends no action-log record, leaves
   optimization_count as it was, and the cycle ends without Verifying. *)
C32_OptimizeQueryNoEffect ==
    /\ [] ( (pc = "Done" /\ decision.action = "optimize_query")
            => /\ analysis_after = Null
               /\ improvement = Null
               /\ ~action_result.success )
    /\ [][ (pc = "Acting" /\ decision.action = "optimize_query")
           => /\ action_result' = [action |-> "optimize_query", success |-> FALSE,
                                   sql_executed |-> None,
                                   error |-> "No SQL generated"]
              /\ pc' = "Done"
              /\ UNCHANGED <<indexes, create_count, action_log, optimization_count,
                             index_checks, total_improvement>> ]_vars

C32_Witness ==
    /\ pc = "Done"
    /\ decision.action = "optimize_query"
    /\ action_result.error = "No SQL generated"
    /\ ~inserts_fail
    /\ action_log = <<>>
    /\ optimization_count = 0
    /\ index_checks = 0


(* C33: optimization_count is incremented in exactly the cycles that add a
   term to total_improvement: act increments it exactly when the cycle goes
   on to verify, a verification that completes adds the improvement of the
   cycle, and a cycle that does not verify has no improvement; so after the
   first completed cycle the counter is 1 exactly when the improvement is
   non-null, and the average get_statistics reports times
   max(optimization_count, 1) is total_improvement. *)
C33_CountMatchesVerifiedCycles ==
    /\ optimization_count = 0
    /\ total_improvement = Zero
    /\ [] ( pc \in {"Idle", "Done"}
            => /\ cycles = 1 =>
                     optimization_count = IF improvement # Null THEN 1 ELSE 0
               /\ optimization_count = 0 => total_improvement = Zero
               /\ LET stats_now == get_statistics(optimization_count, total_improvement)
                      divisor == IF optimization_count > 1 THEN optimization_count ELSE 1
                  IN  Rat(stats_now.average_improvement[1] * divisor,
                          stats_now.average_improvement[2]) = total_improvement )
    /\ [][ /\ pc = "Acting"
              => /\ optimization_count' =
                        optimization_count + (IF pc' = "Verifying" THEN 1 ELSE 0)
                 /\ pc' = "Done" => improvement' = Null
           /\ pc # "Acting" => optimization_count' = optimization_count
           /\ (pc = "Verifying" /\ pc' = "Done")
              => /\ improvement' # Null
                 /\ total_improvement' = RatAdd(total_improvement, improvement')
           /\ ~(pc = "Verifying" /\ pc' = "Done")
              => total_improvement' = total_improvement ]_vars

C33_Witness ==
    /\ pc = "Done"
    /\ optimization_count = 1
    /\ improvement # Null
    /\ improvement # Zero
    /\ total_improvement = improvement
    /\ get_statistics(optimization_count, total_improvement).average_improvement
           = improvement


(* C34: whenever the Verifying phase runs, the execution time of
   analysis_before is not zero, and no cycle ends with the ZeroDivisionError
   of the improvement quotient. *)
C34_VerifyingTimeBeforeNonZero ==
    /\ pc = "Verifying" => analysis_before.execution_time_ms # 0
    /\ exception # "ZeroDivisionError"


(* C35: when the observation is the degraded analysis (100 ms, no index) and
   the oracle is unavailable, the fallback gives no_action with confidence
   low, the cycle does not end with an exception, and no index-existence
   check or creation is attempted. *)
C35_DegradedAndOracleDownNoAction ==
    ( /\ analysis_before # Null
      /\ analysis_before.scan_type = "ERROR"
      /\ oracle_failed )
    => /\ analysis_before.execution_time_ms = 100
       /\ ~analysis_before.index_used
       /\ pc \in {"Acting", "Done"}
       /\ decision.action = "no_action"
       /\ decision.confidence = "low"
       /\ index_checks = 0
       /\ analysis_after = Null
       /\ pc = "Done" => action_result = [success |-> TRUE, message |-> "No action taken"]

C35_Witness ==
    /\ pc = "Done"
    /\ analysis_before.scan_type = "ERROR"
    /\ oracle_failed
    /\ oracle_calls = 1
    /\ decision.action = "no_action"
    /\ decision.reasoning = "Fallback rule-based decision"
    /\ index_checks = 0

====
